---- MODULE Spec2Model ----
(***************************************************************************)
(* A model of the shopping assistant's client state: the persisted chat    *)
(* store (store/chatStore.ts), the persisted cart store (store/cartStore,  *)
(* second half of store/authStore.ts), the ChatInterface component with    *)
(* its asynchronous handleSend, and the Home page that owns the product    *)
(* panel.  The orchestration core of the backend, whose code is not among  *)
(* the sources, is modelled from the specification (section 4.3).          *)
(*                                                                         *)
(* A text is a sequence of tokens; the token " " stands for white space.   *)
(* A JSON object is a function from the keys it carries to their values,   *)
(* so an absent key is a key outside its DOMAIN.                           *)
(***************************************************************************)
EXTENDS Integers, Sequences, FiniteSets, TLC

VARIABLES
    messages,          \* chatStore: the persisted history
    items,             \* cartStore: the persisted cart
    input,             \* ChatInterface: useState('') of the mounted instance
    isLoading,         \* ChatInterface: useState(false) of the mounted instance
    mounted,           \* whether Home (and its ChatInterface) is mounted
    selectedProducts,  \* Home: useState([]) of the mounted instance
    requests,          \* the handleSend calls that sent a request, by turn
    nSent,             \* how many sends have been accepted
    turnState,         \* orchestrator: the state of the conversation's turn
    intent,            \* orchestrator: the intent of the turn
    activeAgent,       \* orchestrator: the agent the turn is dispatched to
    loopCalls,         \* orchestrator: Provider calls made by the tool loop
    exchange,          \* orchestrator: the tool results shown to the Provider
    scratch,           \* context: the scratch slots
    window,            \* context: the window of turns
    coreTurns,         \* how many turns the orchestrator has started
    offered,           \* orchestrator: the tools given to the last Provider call
    returned,          \* orchestrator: what the last Provider call returned
    failure,           \* orchestrator: the failure kind that degraded the turn
    confidence,        \* orchestrator: the confidence of the turn's classification
    scratchWrites,     \* context: the updateScratch calls served so far
    user,              \* authStore: the persisted user, or Null
    token,             \* authStore: the persisted token, or NoToken
    pathname,          \* router: the path of the page shown
    pendingNav,        \* router: the target of a router.push not yet shown
    guardMounted,      \* AuthGuard: useState(false), set by the mount effect
    lastDeps,          \* AuthGuard: the dependencies the redirect effect last ran with
    redirects,         \* AuthGuard: redirects issued since the last act of the visitor
    childrenShown,     \* AuthGuard: whether the last render returned the children
    orders,            \* cartStore: the checkout calls made, in call order
    loading,           \* CartPage: useState(false)
    lookbook,          \* lookbookStore: the persisted items
    lastAdded          \* lookbookStore: the argument of the last addToLookbook

chatVars == <<messages, items, input, isLoading, mounted, selectedProducts,
              requests, nSent>>

coreVars == <<turnState, intent, activeAgent, loopCalls, exchange, scratch,
              window, coreTurns, offered, returned, failure, confidence,
              scratchWrites>>

authVars == <<user, token, pathname, pendingNav, guardMounted, lastDeps,
              redirects, childrenShown>>

cartVars == <<orders, loading>>

lookVars == <<lookbook, lastAdded>>

appVars == <<authVars, cartVars, lookVars>>

vars == <<chatVars, coreVars, appVars>>

----------------------------------------------------------------------------
(* Bounds of the model *)

MaxTurns == 2
MaxHistory == 4
MaxCoreTurns == 2
MaxQty == 1
MaxOrders == 1

----------------------------------------------------------------------------
(* Values *)

EmptyObj == [k \in {} |-> TRUE]

\* JavaScript's null, where an object is expected.
Null == [null |-> TRUE]

\* The token of a visitor who is not logged in.
NoToken == "null"

\* No navigation under way.
NoPath == "none"

\* The redirect effect has not run yet.
NoDeps == <<>>

\* No Provider call made yet in the turn.
NoOutcome == [kind |-> "none"]

Has(obj, key) == key \in DOMAIN obj

With(f, k, v) == [i \in DOMAIN f \cup {k} |-> IF i = k THEN v ELSE f[i]]

Whitespace == " "

RECURSIVE TrimStart(_)
TrimStart(s) ==
    IF s # <<>> /\ Head(s) = Whitespace THEN TrimStart(Tail(s)) ELSE s

RECURSIVE TrimEnd(_)
TrimEnd(s) ==
    IF s # <<>> /\ s[Len(s)] = Whitespace
    THEN TrimEnd(SubSeq(s, 1, Len(s) - 1))
    ELSE s

Trim(s) == TrimEnd(TrimStart(s))

\* The texts a customer types.
Texts == {<<>>, <<" ">>, <<" ", "hi">>}

GreetingText == <<"Hi! I'm your AI shopping assistant. How can I help you today?">>

ErrorText == <<"Sorry, I encountered an error. Please try again.">>

Greeting == [role |-> "assistant", content |-> GreetingText, agent |-> "orchestrator"]

ErrorMessage == [role |-> "assistant", content |-> ErrorText, agent |-> "error"]

\* JavaScript truthiness of a JSON value, written as its literal.
FalsyLiterals == {"false", "0", "null", "\"\""}

Truthy(v) == v \notin FalsyLiterals

P1 == [product_id |-> 1, product_name |-> "dress", brand_name |-> "acme",
       price_from |-> 20]

P2 == [product_id |-> 2, product_name |-> "scarf", brand_name |-> "zeta"]

Products == {P1, P2}

----------------------------------------------------------------------------
(* chatStore.ts *)

\* The bound of the context window of section 3; the store has none.
WindowSize == 3

\* addMessage as it would be with the spread of state.messages forgotten.
addMessage_Overwrite(msgs, message) == <<message>>

\* addMessage as it would be with the new message put first.
addMessage_Prepend(msgs, message) == <<message>> \o msgs

\* addMessage as it would be with a window that drops the oldest message.
addMessage_Window(msgs, message) ==
    IF Len(msgs) >= WindowSize THEN Append(Tail(msgs), message)
    ELSE Append(msgs, message)

addMessage(msgs, message) == Append(msgs, message)

setMessages(msgs, newMessages) == newMessages

clearMessages(msgs) == <<Greeting>>

----------------------------------------------------------------------------
(* cartStore *)

RECURSIVE FindIndex(_, _, _)
FindIndex(its, productId, i) ==
    IF i > Len(its) THEN 0
    ELSE IF its[i].product_id = productId THEN i
    ELSE FindIndex(its, productId, i + 1)

PriceFrom(product) ==
    IF Has(product, "price_from") /\ product.price_from # 0
    THEN product.price_from ELSE 0

\* The entry of a product that is not yet in the cart.
NewItem(product) ==
    [product_id |-> product.product_id,
     product_name |-> product.product_name,
     price |-> PriceFrom(product),
     quantity |-> 1,
     brand_name |-> product.brand_name]

\* addToCart as it would be without the search for an existing entry.
addToCart_AlwaysAppends(its, product) == Append(its, NewItem(product))

\* addToCart as it would be if the entry that grows were moved to the end.
addToCart_MovesToEnd(its, product) ==
    IF FindIndex(its, product.product_id, 1) # 0
    THEN Append(SelectSeq(its,
                    LAMBDA item : item.product_id # product.product_id),
                [its[FindIndex(its, product.product_id, 1)] EXCEPT
                    !.quantity = @ + 1])
    ELSE Append(its, NewItem(product))

addToCart(its, product) ==
    IF FindIndex(its, product.product_id, 1) # 0
    THEN [i \in 1..Len(its) |->
            IF its[i].product_id = product.product_id
            THEN [its[i] EXCEPT !.quantity = its[i].quantity + 1]
            ELSE its[i]]
    ELSE Append(its, NewItem(product))

clearCart(its) == <<>>

RECURSIVE totalItems(_)
totalItems(its) ==
    IF its = <<>> THEN 0
    ELSE its[1].quantity + totalItems(Tail(its))

removeFromCart(its, productId) ==
    SelectSeq(its, LAMBDA item : item.product_id # productId)

updateQuantity(its, productId, quantity) ==
    [i \in 1..Len(its) |->
        IF its[i].product_id = productId
        THEN [its[i] EXCEPT !.quantity = quantity]
        ELSE its[i]]

\* item.price || 0
PriceOr0(item) ==
    IF Has(item, "price") /\ item.price # 0 THEN item.price ELSE 0

\* The line items as they would be with every quantity taken as one.
LineItems_UnitQuantity(its) ==
    [i \in 1..Len(its) |->
        [sku_id |-> its[i].product_id,
         quantity |-> 1,
         unit_price |-> PriceOr0(its[i])]]

\* items.map(...) of checkout: the SKU is the product id.
LineItems(its) ==
    [i \in 1..Len(its) |->
        [sku_id |-> its[i].product_id,
         quantity |-> its[i].quantity,
         unit_price |-> PriceOr0(its[i])]]

OrderPayload(customerId, its) ==
    [customer_id |-> customerId,
     line_items |-> LineItems(its),
     payment_method |-> "Credit Card",
     shipping_address |->
        [line1 |-> "123 Main St", city |-> "New York", state |-> "NY"]]

\* new Error("Cart is empty"), thrown before any request is made.
CartEmptyError == [status |-> "thrown", error |-> <<"Cart is empty">>]

\* POST /api/orders answered with a 2xx status.
OrderResolved == [status |-> "resolved"]

\* checkout up to its await: the call throws on an empty cart, and otherwise
\* posts the order with the caller's token.
CheckoutCall(customerId, tok, its, byPage) ==
    IF Len(its) = 0
    THEN [page |-> byPage, issued |-> FALSE, result |-> CartEmptyError,
          done |-> FALSE]
    ELSE [page |-> byPage, issued |-> TRUE, result |-> [status |-> "pending"],
          payload |-> OrderPayload(customerId, its),
          authorization |-> <<"Bearer", tok>>,
          done |-> FALSE]

\* A call that has run to its end: its promise is settled, and the request
\* it made is no longer kept.
Settled(call) ==
    [page |-> call.page, issued |-> call.issued, result |-> call.result,
     done |-> TRUE]

\* The cart after the await as it would be if it were emptied whatever the
\* outcome of the request.
CartAfterOrder_AlwaysEmptied(its, r) == <<>>

\* checkout after its await: set({ items: [] }) is reached only when the
\* request has resolved.
CartAfterOrder(its, r) == IF r.status = "resolved" THEN <<>> ELSE its

----------------------------------------------------------------------------
(* The backend's answers to POST /api/agent/chat, as axios delivers them *)

Pending == [status |-> "pending"]

Rejected == [status |-> "rejected", error |-> <<"Network Error">>]

DataValues ==
    { [clear_cart |-> "true"],
      [clear_cart |-> "false"],
      [products |-> <<P1>>],
      [clear_cart |-> "1", products |-> <<>>] }

WellFormedBodies ==
    { [response |-> <<"cart", " ", "cleared">>, agent_name |-> "checkout"] }
    \cup { [response |-> <<"ok">>, agent_name |-> "search", data |-> d] :
             d \in DataValues }

MalformedBodies ==
    { EmptyObj,
      [data |-> [clear_cart |-> "true"]] }

Responses ==
    { Rejected,
      [status |-> "resolved", kind |-> "null"],
      [status |-> "resolved", kind |-> "string"] }
    \cup { [status |-> "resolved", kind |-> "object", data |-> b] :
             b \in WellFormedBodies \cup MalformedBodies }

\* response.data as handleSend reads it: a property read on a string yields
\* undefined, as on an object without the key.
Body(r) == IF r.kind = "object" THEN r.data ELSE EmptyObj

\* response.data.response throws a TypeError when response.data is null.
Throws(r) == r.status = "rejected" \/ r.kind = "null"

\* The directive as it would be read with a test for the key alone.
ClearCartDirective_KeyOnly(r) ==
    Has(Body(r), "data") /\ Has(Body(r).data, "clear_cart")

\* response.data.data?.clear_cart
ClearCartDirective(r) ==
    /\ Has(Body(r), "data")
    /\ Has(Body(r).data, "clear_cart")
    /\ Truthy(Body(r).data.clear_cart)

\* response.data.data?.products
HasProducts(r) == Has(Body(r), "data") /\ Has(Body(r).data, "products")

----------------------------------------------------------------------------
(* ChatInterface.tsx *)

\* The test as it would be without the look at the input.
CanSend_WhenIdle(inp, busy) == ~busy

CanSend(inp, busy) == ~(Trim(inp) = <<>> \/ busy)

\* The payload as it would be with the cart left out.
RequestPayload_NoCart(inp, its) ==
    [message |-> inp,
     context |-> [cart_items |-> <<>>, page_context |-> "/"]]

RequestPayload(inp, its) ==
    [message |-> inp,
     context |-> [cart_items |-> its, page_context |-> "/"]]

AssistantMessage(r) ==
    LET b == Body(r)
        m0 == [role |-> "assistant"]
        m1 == IF Has(b, "response") THEN With(m0, "content", b.response) ELSE m0
        m2 == IF Has(b, "agent_name") THEN With(m1, "agent", b.agent_name) ELSE m1
    IN  IF Has(b, "data") THEN With(m2, "data", b.data) ELSE m2

HandleSend ==
    /\ mounted
    /\ nSent < MaxTurns
    /\ IF CanSend(input, isLoading)
       THEN /\ messages' = addMessage(messages, [role |-> "user", content |-> input])
            /\ input' = <<>>
            /\ isLoading' = TRUE
            /\ nSent' = nSent + 1
            /\ requests' = With(requests, nSent + 1,
                                [payload |-> RequestPayload(input, items),
                                 live |-> TRUE,
                                 result |-> Pending,
                                 done |-> FALSE])
            /\ UNCHANGED <<items, mounted, selectedProducts>>
            /\ UNCHANGED <<coreVars, appVars>>
       ELSE UNCHANGED vars

SetInput(t) ==
    /\ mounted
    /\ ~isLoading
    /\ input' = t
    /\ UNCHANGED <<messages, items, isLoading, mounted, selectedProducts,
                   requests, nSent>>
    /\ UNCHANGED <<coreVars, appVars>>

Respond(t, r) ==
    /\ t \in DOMAIN requests
    /\ requests[t].result = Pending
    /\ requests' = [requests EXCEPT ![t].result = r]
    /\ UNCHANGED <<messages, items, input, isLoading, mounted,
                   selectedProducts, nSent>>
    /\ UNCHANGED <<coreVars, appVars>>

Continue(t) ==
    /\ t \in DOMAIN requests
    /\ requests[t].result # Pending
    /\ ~requests[t].done
    /\ LET r == requests[t].result
           live == requests[t].live
       IN  /\ IF Throws(r)
              THEN /\ messages' = addMessage(messages, ErrorMessage)
                   /\ UNCHANGED <<items, selectedProducts>>
              ELSE /\ messages' = addMessage(messages, AssistantMessage(r))
                   /\ items' = IF ClearCartDirective(r) THEN clearCart(items)
                               ELSE items
                   /\ selectedProducts' =
                        IF HasProducts(r) /\ live THEN Body(r).data.products
                        ELSE selectedProducts
           /\ isLoading' = IF live THEN FALSE ELSE isLoading
    /\ requests' = [requests EXCEPT ![t].done = TRUE]
    /\ UNCHANGED <<input, mounted, nSent>>
    /\ UNCHANGED <<coreVars, appVars>>

\* Leaving the page unmounts Home and its ChatInterface; requests in flight
\* go on, and their continuations still hold the stores' operations.
Unmount ==
    /\ mounted
    /\ mounted' = FALSE
    /\ input' = <<>>
    /\ isLoading' = FALSE
    /\ selectedProducts' = <<>>
    /\ requests' = [t \in DOMAIN requests |-> [requests[t] EXCEPT !.live = FALSE]]
    /\ UNCHANGED <<messages, items, nSent>>
    /\ UNCHANGED <<coreVars, appVars>>

LastProducts(msgs) ==
    LET last == msgs[Len(msgs)]
    IN  IF msgs # <<>> /\ Has(last, "data") /\ Has(last.data, "products")
        THEN last.data.products ELSE <<>>

Mount ==
    /\ ~mounted
    /\ mounted' = TRUE
    /\ input' = <<>>
    /\ isLoading' = FALSE
    /\ selectedProducts' = LastProducts(messages)
    /\ UNCHANGED <<messages, items, requests, nSent>>
    /\ UNCHANGED <<coreVars, appVars>>

CartQuantity(its, productId) ==
    IF FindIndex(its, productId, 1) = 0 THEN 0
    ELSE its[FindIndex(its, productId, 1)].quantity

\* ProductGrid: the cart button of a displayed product.
AddToCart(p) ==
    /\ mounted
    /\ \E i \in 1..Len(selectedProducts) : selectedProducts[i] = p
    /\ CartQuantity(items, p.product_id) < MaxQty
    /\ items' = addToCart(items, p)
    /\ UNCHANGED <<messages, input, isLoading, mounted, selectedProducts,
                   requests, nSent>>
    /\ UNCHANGED <<coreVars, appVars>>

----------------------------------------------------------------------------

Init ==
    /\ messages = <<Greeting>>
    /\ items = <<>>
    /\ input = <<>>
    /\ isLoading = FALSE
    /\ mounted = TRUE
    /\ selectedProducts = <<>>
    /\ requests = EmptyObj
    /\ nSent = 0
    /\ turnState = "Idle"
    /\ intent = "none"
    /\ activeAgent = "none"
    /\ loopCalls = 0
    /\ exchange = <<>>
    /\ scratch = {}
    /\ window = <<>>
    /\ coreTurns = 0
    /\ offered = {}
    /\ returned = NoOutcome
    /\ failure = "none"
    /\ confidence = "none"
    /\ scratchWrites = 0
    /\ user = Null
    /\ token = NoToken
    /\ pathname = "/"
    /\ pendingNav = NoPath
    /\ guardMounted = FALSE
    /\ lastDeps = NoDeps
    /\ redirects = 0
    /\ childrenShown = FALSE
    /\ orders = <<>>
    /\ loading = FALSE
    /\ lookbook = <<>>
    /\ lastAdded = Null

Next ==
    \/ HandleSend
    \/ \E t \in Texts : SetInput(t)
    \/ \E t \in 1..MaxTurns, r \in Responses : Respond(t, r)
    \/ \E t \in 1..MaxTurns : Continue(t)
    \/ Unmount
    \/ Mount
    \/ \E p \in Products : AddToCart(p)

Spec == Init /\ [][Next]_vars

----------------------------------------------------------------------------
(* The chat store driven directly, operation by operation *)

StoreMessages ==
    { [role |-> "user", content |-> <<"hi">>],
      [role |-> "assistant", content |-> <<"ok">>, agent |-> "search"],
      ErrorMessage }

\* The arguments given to setMessages.
StoreHistories ==
    {<<>>} \cup { <<m>> : m \in StoreMessages }
           \cup { <<Greeting, m>> : m \in StoreMessages }

StoreAddMessage(m) ==
    /\ Len(messages) < MaxHistory
    /\ messages' = addMessage(messages, m)
    /\ UNCHANGED <<items, input, isLoading, mounted, selectedProducts,
                   requests, nSent>>
    /\ UNCHANGED <<coreVars, appVars>>

StoreSetMessages(ms) ==
    /\ messages' = setMessages(messages, ms)
    /\ UNCHANGED <<items, input, isLoading, mounted, selectedProducts,
                   requests, nSent>>
    /\ UNCHANGED <<coreVars, appVars>>

StoreClearMessages ==
    /\ messages' = clearMessages(messages)
    /\ UNCHANGED <<items, input, isLoading, mounted, selectedProducts,
                   requests, nSent>>
    /\ UNCHANGED <<coreVars, appVars>>

NextStore ==
    \/ \E m \in StoreMessages : StoreAddMessage(m)
    \/ \E ms \in StoreHistories : StoreSetMessages(ms)
    \/ StoreClearMessages

SpecStore == Init /\ [][NextStore]_vars

----------------------------------------------------------------------------
(* AuthGuard.tsx *)

PUBLIC_PATHS == {"/login", "/register"}

\* The pages of the application.
Paths == {"/", "/login", "/register", "/cart", "/orders"}

\* The render as it would be without the test of the user.
Renders_WhenMounted(isMounted, usr, path) == isMounted

\* What AuthGuard returns: the children, or null.
Renders(isMounted, usr, path) ==
    IF ~isMounted THEN FALSE
    ELSE IF usr = Null /\ path \notin PUBLIC_PATHS THEN FALSE
    ELSE TRUE

\* The effect as it would be if it sent every logged-out visitor to /login.
Pushes_LoginAlways(isMounted, usr, path) ==
    IF ~isMounted THEN <<>>
    ELSE (IF usr = Null THEN <<"/login">> ELSE <<>>)
         \o (IF usr # Null /\ path \in PUBLIC_PATHS THEN <<"/">> ELSE <<>>)

\* The router.push calls of one run of the redirect effect, in order.
Pushes(isMounted, usr, path) ==
    IF ~isMounted THEN <<>>
    ELSE (IF usr = Null /\ path \notin PUBLIC_PATHS THEN <<"/login">>
          ELSE <<>>)
         \o (IF usr # Null /\ path \in PUBLIC_PATHS THEN <<"/">> ELSE <<>>)

----------------------------------------------------------------------------
(* The cart store driven directly, and the CartPage with its handleCheckout *)

U1 == [customer_id |-> 7, email |-> "a@b.c", first_name |-> "User"]

T1 == "jwt"

\* The quantities given to updateQuantity.
Quantities == {2}

\* The outcomes of POST /api/orders, as axios delivers them.
OrderResults == {OrderResolved, Rejected}

\* What the cart's operations leave alone outside the cart and the orders.
CartFrame ==
    /\ UNCHANGED <<messages, input, isLoading, mounted, selectedProducts,
                   requests, nSent>>
    /\ UNCHANGED coreVars
    /\ UNCHANGED <<pathname, guardMounted, lastDeps, redirects>>
    /\ UNCHANGED lookVars
    /\ childrenShown' = Renders(guardMounted, user', pathname)

StoreAddToCart(p) ==
    /\ CartQuantity(items, p.product_id) < MaxQty
    /\ items' = addToCart(items, p)
    /\ UNCHANGED <<user, token, pendingNav, orders, loading>>
    /\ CartFrame

\* CartPage: the bin button of an item of the cart.
StoreRemoveFromCart(productId) ==
    /\ FindIndex(items, productId, 1) # 0
    /\ items' = removeFromCart(items, productId)
    /\ UNCHANGED <<user, token, pendingNav, orders, loading>>
    /\ CartFrame

StoreUpdateQuantity(productId, quantity) ==
    /\ FindIndex(items, productId, 1) # 0
    /\ items' = updateQuantity(items, productId, quantity)
    /\ UNCHANGED <<user, token, pendingNav, orders, loading>>
    /\ CartFrame

StoreLogin(tok, usr) ==
    /\ user = Null
    /\ token' = tok
    /\ user' = usr
    /\ UNCHANGED <<items, pendingNav, orders, loading>>
    /\ CartFrame

StoreLogout ==
    /\ user # Null
    /\ token' = NoToken
    /\ user' = Null
    /\ UNCHANGED <<items, pendingNav, orders, loading>>
    /\ CartFrame

\* CartPage: the Checkout button, rendered when the cart holds an item and
\* disabled while loading; handleCheckout to its await.
HandleCheckout ==
    /\ Len(items) # 0
    /\ ~loading
    /\ Len(orders) < MaxOrders
    /\ IF user = Null \/ token = NoToken
       THEN /\ pendingNav' = "/login"
            /\ UNCHANGED <<orders, loading>>
       ELSE /\ loading' = TRUE
            /\ orders' = Append(orders,
                    CheckoutCall(user.customer_id, token, items, TRUE))
            /\ UNCHANGED pendingNav
    /\ UNCHANGED <<items, user, token>>
    /\ CartFrame

\* checkout called on the store by a caller other than the page.
StoreCheckout(customerId, tok) ==
    /\ Len(orders) < MaxOrders
    /\ orders' = Append(orders, CheckoutCall(customerId, tok, items, FALSE))
    /\ UNCHANGED <<items, user, token, pendingNav, loading>>
    /\ CartFrame

\* The order request settles.
OrderRespond(k, r) ==
    /\ k \in 1..Len(orders)
    /\ orders[k].result.status = "pending"
    /\ orders' = [orders EXCEPT ![k].result = r]
    /\ UNCHANGED <<items, user, token, pendingNav, loading>>
    /\ CartFrame

\* checkout after its await, and for the page's call handleCheckout after
\* its own: router.push('/orders') or the alert, then setLoading(false).
CheckoutContinue(k) ==
    /\ k \in 1..Len(orders)
    /\ orders[k].result.status # "pending"
    /\ ~orders[k].done
    /\ items' = CartAfterOrder(items, orders[k].result)
    /\ orders' = [orders EXCEPT ![k] = Settled(orders[k])]
    /\ IF orders[k].page
       THEN /\ loading' = FALSE
            /\ pendingNav' = IF orders[k].result.status = "resolved"
                             THEN "/orders" ELSE pendingNav
       ELSE UNCHANGED <<loading, pendingNav>>
    /\ UNCHANGED <<user, token>>
    /\ CartFrame

NextCart ==
    \/ \E p \in Products : StoreAddToCart(p)
    \/ \E p \in Products : StoreRemoveFromCart(p.product_id)
    \/ \E p \in Products, q \in Quantities :
          StoreUpdateQuantity(p.product_id, q)
    \/ StoreLogin(T1, U1)
    \/ StoreLogout
    \/ HandleCheckout
    \/ StoreCheckout(U1.customer_id, T1)
    \/ \E k \in 1..MaxOrders, r \in OrderResults : OrderRespond(k, r)
    \/ \E k \in 1..MaxOrders : CheckoutContinue(k)

SpecCart == Init /\ [][NextCart]_vars

\* A number a caller of the store may give to updateQuantity: the store
\* takes any number, and 0 is one the order_line_item table refuses.
AnyQuantities == {0}

StoreClearCart ==
    /\ items' = clearCart(items)
    /\ UNCHANGED <<user, token, pendingNav, orders, loading>>
    /\ CartFrame

\* The cart store alone, each of its operations called by any caller.
NextCartOps ==
    \/ \E p \in Products : StoreAddToCart(p)
    \/ \E p \in Products : StoreRemoveFromCart(p.product_id)
    \/ \E p \in Products, q \in AnyQuantities :
          StoreUpdateQuantity(p.product_id, q)
    \/ StoreClearCart
    \/ StoreCheckout(U1.customer_id, T1)
    \/ \E k \in 1..MaxOrders, r \in OrderResults : OrderRespond(k, r)
    \/ \E k \in 1..MaxOrders : CheckoutContinue(k)

SpecCartOps == Init /\ [][NextCartOps]_vars

----------------------------------------------------------------------------
(* lookbookStore.ts, driven directly *)

\* The dress as a later search returns it, at another price.
P1Repriced == [P1 EXCEPT !.price_from = 25]

P3 == [product_id |-> 3, product_name |-> "boots", brand_name |-> "acme",
       price_from |-> 80]

\* The products given to addToLookbook: two of them have the same product_id.
LookbookProducts == Products \cup {P1Repriced, P3}

ProductIds == { p.product_id : p \in LookbookProducts }

\* items.some(i => i.product_id === productId)
RECURSIVE isInLookbook(_, _)
isInLookbook(its, productId) ==
    IF its = <<>> THEN FALSE
    ELSE IF its[1].product_id = productId THEN TRUE
    ELSE isInLookbook(Tail(its), productId)

\* addToLookbook as it would be without the test for the product's id.
addToLookbook_AlwaysAppends(its, product) == Append(its, product)

addToLookbook(its, product) ==
    IF isInLookbook(its, product.product_id) THEN its
    ELSE Append(its, product)

removeFromLookbook(its, productId) ==
    SelectSeq(its, LAMBDA i : i.product_id # productId)

LookFrame == UNCHANGED <<chatVars, coreVars, authVars, cartVars>>

StoreAddToLookbook(product) ==
    /\ lookbook' = addToLookbook(lookbook, product)
    /\ lastAdded' = product
    /\ LookFrame

StoreRemoveFromLookbook(productId) ==
    /\ lookbook' = removeFromLookbook(lookbook, productId)
    /\ UNCHANGED lastAdded
    /\ LookFrame

NextLookbook ==
    \/ \E p \in LookbookProducts : StoreAddToLookbook(p)
    \/ \E id \in ProductIds : StoreRemoveFromLookbook(id)

SpecLookbook == Init /\ [][NextLookbook]_vars

----------------------------------------------------------------------------
(* AuthGuard around the pages, with the visitor's acts *)

AuthFrame == UNCHANGED <<chatVars, coreVars, cartVars, lookVars>>

\* The first commit: the mount effect sets mounted, and the redirect effect
\* runs with mounted still false and returns.
GuardFirstCommit ==
    /\ ~guardMounted
    /\ guardMounted' = TRUE
    /\ lastDeps' = <<user, pathname, FALSE>>
    /\ childrenShown' = Renders(TRUE, user, pathname)
    /\ UNCHANGED <<user, token, pathname, pendingNav, redirects>>
    /\ AuthFrame

\* The redirect effect, run after a render in which user, pathname or
\* mounted differ from those of its last run.
GuardEffect ==
    /\ guardMounted
    /\ lastDeps # <<user, pathname, TRUE>>
    /\ lastDeps' = <<user, pathname, TRUE>>
    /\ LET pushes == Pushes(guardMounted, user, pathname)
       IN  /\ pendingNav' = IF Len(pushes) = 0 THEN pendingNav
                            ELSE pushes[Len(pushes)]
           /\ redirects' = redirects + Len(pushes)
    /\ UNCHANGED <<user, token, pathname, guardMounted, childrenShown>>
    /\ AuthFrame

\* The router shows the page pushed.
NavCommit ==
    /\ pendingNav # NoPath
    /\ pathname' = pendingNav
    /\ pendingNav' = NoPath
    /\ childrenShown' = Renders(guardMounted, user, pendingNav)
    /\ UNCHANGED <<user, token, guardMounted, lastDeps, redirects>>
    /\ AuthFrame

\* The links of the page shown: the logo, for a logged-in user the pages
\* of the header, and on the login page the link to the registration.
Links(usr, path) ==
    {"/"} \cup (IF usr # Null THEN {"/orders", "/cart"} ELSE {})
          \cup (IF path = "/login" THEN {"/register"} ELSE {})

\* Header and LoginPage: a link of the page shown.
Navigate(path) ==
    /\ childrenShown
    /\ path \in Links(user, pathname)
    /\ pendingNav' = path
    /\ redirects' = 0
    /\ UNCHANGED <<user, token, pathname, guardMounted, lastDeps,
                   childrenShown>>
    /\ AuthFrame

\* The visitor loads a page by its address: the application starts anew,
\* the persisted stores kept.
Reload(path) ==
    /\ pathname' = path
    /\ pendingNav' = NoPath
    /\ guardMounted' = FALSE
    /\ lastDeps' = NoDeps
    /\ redirects' = 0
    /\ childrenShown' = FALSE
    /\ UNCHANGED <<user, token>>
    /\ AuthFrame

\* LoginPage: handleSubmit with the credentials accepted.
HandleSubmit(tok, usr) ==
    /\ childrenShown
    /\ pathname = "/login"
    /\ user = Null
    /\ token' = tok
    /\ user' = usr
    /\ pendingNav' = "/"
    /\ redirects' = 0
    /\ childrenShown' = Renders(guardMounted, usr, pathname)
    /\ UNCHANGED <<pathname, guardMounted, lastDeps>>
    /\ AuthFrame

\* Header: the Sign Out button.
Logout ==
    /\ childrenShown
    /\ user # Null
    /\ token' = NoToken
    /\ user' = Null
    /\ redirects' = 0
    /\ childrenShown' = Renders(guardMounted, Null, pathname)
    /\ UNCHANGED <<pathname, pendingNav, guardMounted, lastDeps>>
    /\ AuthFrame

NextAuth ==
    \/ GuardFirstCommit
    \/ GuardEffect
    \/ NavCommit
    \/ \E path \in Paths : Navigate(path)
    \/ \E path \in Paths : Reload(path)
    \/ HandleSubmit(T1, U1)
    \/ Logout

SpecAuth == Init /\ [][NextAuth]_vars

\* Effects run after the render that calls for them, and the router shows
\* the page pushed.
SpecAuthFair ==
    /\ Init
    /\ [][NextAuth]_vars
    /\ WF_vars(GuardFirstCommit)
    /\ WF_vars(GuardEffect)
    /\ WF_vars(NavCommit)

----------------------------------------------------------------------------
(* The orchestrator of section 4.3 and the context manager of section 4.5, *)
(* for one conversation, whose turns are serialized (section 5)            *)

\* The hard iteration cap of the tool loop.
MaxToolIterations == 3

Intents == {"style", "search", "lookbook", "checkout", "returns", "recommend",
            "fallback"}

\* The intent as it would be if the confidence were not looked at.
IntentOf_IgnoresConfidence(label, confident) == label

\* The intent of a classification: the label returned, or fallback when the
\* confidence is below the threshold.
IntentOf(label, confident) == IF confident THEN label ELSE "fallback"

\* The static mapping table from intent to agent.
AgentFor(i) ==
    CASE i = "style" -> "stylist"
      [] i = "search" -> "catalog_search"
      [] i = "lookbook" -> "lookbook_composer"
      [] i = "checkout" -> "checkout"
      [] i = "returns" -> "returns"
      [] i = "recommend" -> "recommender"
      [] OTHER -> "fallback"

Tools == {"similaritySearch", "orderLookup"}

\* The whitelist of tools an agent declares.
ToolsOf(agent) ==
    CASE agent \in {"stylist", "catalog_search", "lookbook_composer"} ->
            {"similaritySearch"}
      [] agent \in {"checkout", "returns"} -> {"orderLookup"}
      [] agent = "recommender" -> {"similaritySearch", "orderLookup"}
      [] OTHER -> {}

\* What one Provider call of the tool loop returns: final text, a tool call,
\* or nothing (the backend is unavailable or the wait has run out).
ProviderOutcomes ==
    { [kind |-> "final"], [kind |-> "unavailable"] }
    \cup { [kind |-> "tool", name |-> n, parsable |-> a] :
             n \in Tools, a \in BOOLEAN }

\* availableTools of a Provider call: the declared tool set of the active
\* agent only.
AvailableTools(agent) == ToolsOf(agent)

\* The contract test as it would be if only the arguments were examined.
ContractViolation_ArgumentsOnly(o, agent) == ~o.parsable

\* Malformed structured output: a tool call referencing an undeclared tool,
\* or unparsable arguments.
ContractViolation(o, agent) == o.name \notin ToolsOf(agent) \/ ~o.parsable

DegradedTurn == [role |-> "agent", agent |-> "error"]

\* appendTurn with the window trim: the oldest turn is dropped first.
appendTurn(w, turn) ==
    IF Len(w) >= WindowSize THEN Append(Tail(w), turn) ELSE Append(w, turn)

\* The cap as it would be with the comparison off by one.
CapReached_OffByOne(n) == n > MaxToolIterations

CapReached(n) == n >= MaxToolIterations

\* The end of the loop as it would be if a failed execution ended it too.
LoopEnds_OnFailure(n, executed) == CapReached(n) \/ ~executed

\* Whether the loop ends after the n-th call's tool result: at the cap, and
\* not because the execution failed (ToolExecutionFailed is caught per call).
LoopEnds(n, executed) == CapReached(n)

TurnOver == turnState \in {"Idle", "Done", "Degraded"}

StartTurn ==
    /\ TurnOver
    /\ coreTurns < MaxCoreTurns
    /\ coreTurns' = coreTurns + 1
    /\ turnState' = "Classifying"
    /\ intent' = "none"
    /\ activeAgent' = "none"
    /\ loopCalls' = 0
    /\ exchange' = <<>>
    /\ window' = appendTurn(window, [role |-> "customer"])
    /\ offered' = {}
    /\ returned' = NoOutcome
    /\ failure' = "none"
    /\ confidence' = "none"
    /\ UNCHANGED <<scratch, scratchWrites>>
    /\ UNCHANGED <<chatVars, appVars>>

\* The degraded end as it would be if it left the scratch as it is.
Degrade_KeepsScratch(kind) ==
    /\ turnState' = "Degraded"
    /\ failure' = kind
    /\ window' = appendTurn(window, DegradedTurn)
    /\ scratch' = scratch

Degrade(kind) ==
    /\ turnState' = "Degraded"
    /\ failure' = kind
    /\ window' = appendTurn(window, DegradedTurn)
    /\ scratch' = {}

\* Classifying: the routing call returns one label and a confidence, which
\* below the threshold maps to fallback; a Provider that does not answer
\* degrades the turn.
Classify(label, confident, available) ==
    /\ turnState = "Classifying"
    /\ IF available
       THEN /\ intent' = IntentOf(label, confident)
            /\ confidence' = IF confident THEN "high" ELSE "low"
            /\ turnState' = "Dispatched"
            /\ UNCHANGED <<window, scratch, failure>>
       ELSE /\ Degrade("ProviderUnavailable")
            /\ UNCHANGED <<intent, confidence>>
    /\ UNCHANGED <<activeAgent, loopCalls, exchange, coreTurns, offered,
                   returned, scratchWrites>>
    /\ UNCHANGED <<chatVars, appVars>>

\* Dispatched as it would be if the turn went straight on to Responding.
Dispatch_SkipsToolLoop ==
    /\ turnState = "Dispatched"
    /\ activeAgent' = AgentFor(intent)
    /\ turnState' = "Responding"
    /\ UNCHANGED <<intent, loopCalls, exchange, scratch, window, coreTurns,
                   offered, returned, failure, confidence, scratchWrites>>
    /\ UNCHANGED <<chatVars, appVars>>

Dispatch ==
    /\ turnState = "Dispatched"
    /\ activeAgent' = AgentFor(intent)
    /\ turnState' = "ToolLoop"
    /\ UNCHANGED <<intent, loopCalls, exchange, scratch, window, coreTurns,
                   offered, returned, failure, confidence, scratchWrites>>
    /\ UNCHANGED <<chatVars, appVars>>

\* One iteration of the tool loop: a Provider call and, for a tool call of
\* the agent's whitelist, its execution, which succeeds or fails.
ToolLoopStep(o, executed) ==
    /\ turnState = "ToolLoop"
    /\ loopCalls' = loopCalls + 1
    /\ offered' = AvailableTools(activeAgent)
    /\ returned' = o
    /\ CASE o.kind = "final" ->
                /\ turnState' = "Responding"
                /\ UNCHANGED <<exchange, scratch, window, failure,
                               scratchWrites>>
         [] o.kind = "unavailable" ->
                /\ Degrade("ProviderUnavailable")
                /\ UNCHANGED <<exchange, scratchWrites>>
         [] OTHER ->
                IF ContractViolation(o, activeAgent)
                THEN /\ Degrade("ProviderContractViolation")
                     /\ UNCHANGED <<exchange, scratchWrites>>
                ELSE /\ exchange' = Append(exchange,
                            [tool |-> o.name,
                             result |-> IF executed THEN "result" ELSE "error"])
                     /\ IF LoopEnds(loopCalls + 1, executed)
                        THEN /\ Degrade("ToolLoopExceeded")
                             /\ UNCHANGED scratchWrites
                        ELSE /\ turnState' = "ToolLoop"
                             /\ scratch' = IF executed THEN scratch \cup {o.name}
                                           ELSE scratch
                             /\ scratchWrites' = IF executed
                                                 THEN scratchWrites + 1
                                                 ELSE scratchWrites
                             /\ UNCHANGED <<window, failure>>
    /\ UNCHANGED <<intent, activeAgent, coreTurns, confidence>>
    /\ UNCHANGED <<chatVars, appVars>>

Responding ==
    /\ turnState = "Responding"
    /\ turnState' = "Done"
    /\ window' = appendTurn(window, [role |-> "agent", agent |-> activeAgent])
    /\ scratch' = {}
    /\ UNCHANGED <<intent, activeAgent, loopCalls, exchange, coreTurns,
                   offered, returned, failure, confidence, scratchWrites>>
    /\ UNCHANGED <<chatVars, appVars>>

NextCore ==
    \/ StartTurn
    \/ \E label \in Intents, confident \in BOOLEAN, available \in BOOLEAN :
          Classify(label, confident, available)
    \/ Dispatch
    \/ \E o \in ProviderOutcomes, executed \in BOOLEAN : ToolLoopStep(o, executed)
    \/ Responding

SpecCore == Init /\ [][NextCore]_vars

SpecFair == Init /\ [][Next]_vars /\ WF_vars(\E t \in 1..MaxTurns : Continue(t))

\* The steps of a turn under way.  The Provider call has a bounded wait and
\* the steps of a turn follow one another (section 5), so a turn under way
\* is not left standing.
TurnStep ==
    \/ \E label \in Intents, confident \in BOOLEAN, available \in BOOLEAN :
          Classify(label, confident, available)
    \/ Dispatch
    \/ \E o \in ProviderOutcomes, executed \in BOOLEAN : ToolLoopStep(o, executed)
    \/ Responding

SpecCoreFair == Init /\ [][NextCore]_vars /\ WF_vars(TurnStep)

----------------------------------------------------------------------------
(* Notions the properties below use *)

Turns == DOMAIN requests

\* The step in which handleSend's continuation for turn t runs to its end.
Completes(t) ==
    /\ t \in Turns
    /\ ~requests[t].done
    /\ t \in DOMAIN requests'
    /\ requests'[t].done

\* The step in which handleSend accepts a send as turn t.
Accepts(t) == t \notin Turns /\ t \in DOMAIN requests'

\* A response that is the reply the chat interface of section 6 promises:
\* a JSON object with a text and an agent name.
IsReply(r) ==
    /\ r.status = "resolved"
    /\ r.kind = "object"
    /\ "response" \in DOMAIN r.data
    /\ "agent_name" \in DOMAIN r.data

\* The request failed: it was rejected (network error, timeout, non-2xx
\* status) or its response is malformed.
RequestFailed(r) == ~IsReply(r)

\* The response's structured payload carries clear_cart with a truthy value.
CarriesClearCart(r) ==
    /\ r.status = "resolved"
    /\ r.kind = "object"
    /\ "data" \in DOMAIN r.data
    /\ "clear_cart" \in DOMAIN r.data.data
    /\ r.data.data.clear_cart \notin {"false", "0", "null", "\"\""}

UserMessage(t) == [role |-> "user", content |-> requests[t].payload.message]

IsPrefix(s, t) == Len(s) <= Len(t) /\ \A i \in 1..Len(s) : t[i] = s[i]

----------------------------------------------------------------------------
\* C1: for every chat send whose request fails (rejected, or answered with
\* a malformed response) the turn appends exactly one assistant message,
\* the fixed error message, so that nothing of the failure value is shown.
C1_FailedSendShowsFixedError ==
    [][\A t \in Turns :
         (Completes(t) /\ RequestFailed(requests[t].result))
            => messages' = Append(messages, ErrorMessage)]_vars

\* C2: a failed turn loses no data.  While a turn runs every message already
\* in the history keeps its content and position; when a failed turn
\* completes the history still holds the customer's message of that turn
\* and has grown by the one reply, and the component that sent it is ready
\* for the next send as after any other turn.
C2_FailedTurnLosesNoData ==
    [][\A t \in Turns :
         /\ ~requests[t].done => IsPrefix(messages, messages')
         /\ (Completes(t) /\ RequestFailed(requests[t].result)) =>
              /\ \E i \in 1..Len(messages') : messages'[i] = UserMessage(t)
              /\ Len(messages') = Len(messages) + 1
              /\ requests[t].live =>
                   /\ ~isLoading'
                   /\ \A x \in Texts : Trim(x) # <<>> => CanSend(x, isLoading')]_vars

\* C2, reached: a send was accepted by the component whose earlier turn failed.
C2_Witness ==
    \E t \in Turns, u \in Turns :
        /\ t < u
        /\ requests[t].done
        /\ RequestFailed(requests[t].result)
        /\ requests[t].live
        /\ requests[u].live
        /\ \E i \in 1..Len(messages) : messages[i] = UserMessage(t)

ReplyTo(t) ==
    IF Throws(requests[t].result) THEN ErrorMessage
    ELSE AssistantMessage(requests[t].result)

RECURSIVE SequentialHistory(_)
SequentialHistory(n) ==
    IF n = 0 THEN <<Greeting>>
    ELSE SequentialHistory(n - 1) \o <<UserMessage(n), ReplyTo(n)>>

\* C3: turns submitted while an earlier one runs are applied in arrival
\* order: once all have completed, the history is the one that submitting
\* them one after the other produces.
C3_TurnsAppliedInArrivalOrder ==
    (\A t \in Turns : requests[t].done) => messages = SequentialHistory(nSent)

C6_WindowNeverExceedsBound == Len(messages) <= WindowSize

\* C6, amended: the history has no bound and nothing is dropped from it: it
\* holds the greeting, first, and one message for every accepted send and
\* for every completed turn.
C6_HistoryGrowsWithoutTrim ==
    /\ messages[1] = Greeting
    /\ Len(messages) = 1 + nSent + Cardinality({t \in Turns : requests[t].done})

\* C6, reached: a history longer than the window bound, the greeting kept.
C6_Witness == Len(messages) > WindowSize /\ messages[1] = Greeting

\* A turn in flight in the component that is mounted.
Wedged(t) == t \in Turns /\ requests[t].live /\ ~requests[t].done

\* C7: a conversation is never left wedged mid-turn: a turn in flight in a
\* mounted component eventually completes, the loading flag falling and the
\* input accepting a message again, whether or not the backend ever answers.
C7_NeverWedged ==
    \A t \in 1..MaxTurns : [](Wedged(t) => <>(~Wedged(t) /\ ~isLoading))

\* C8: every assistant message of the history carries an agent name, the
\* greeting's being 'orchestrator'.
C8_AssistantMessagesCarryAgent ==
    /\ messages[1].agent = "orchestrator"
    /\ \A i \in 1..Len(messages) :
         messages[i].role = "assistant" => "agent" \in DOMAIN messages[i]

\* C9: the cart handed to a turn is a read-only snapshot.  The request
\* carries the cart as it is when the send is accepted, sending leaves the
\* cart alone, the request's copy does not change afterwards, and a turn
\* whose response carries no clear_cart directive completes with the cart's
\* items, quantities and prices as they were.
C9_CartSnapshotReadOnly ==
    [][\A t \in 1..MaxTurns :
         /\ Accepts(t) =>
              /\ requests'[t].payload.context.cart_items = items
              /\ items' = items
         /\ (t \in Turns /\ t \in DOMAIN requests') =>
              requests'[t].payload = requests[t].payload
         /\ (Completes(t) /\ ~CarriesClearCart(requests[t].result)) =>
              items' = items]_vars

\* C9, reached: a turn sent with a filled cart has completed without the
\* directive, and the cart is the one the request carries.
C9_Witness ==
    \E t \in Turns :
        /\ requests[t].done
        /\ ~CarriesClearCart(requests[t].result)
        /\ requests[t].payload.context.cart_items # <<>>
        /\ items = requests[t].payload.context.cart_items

\* C10: the tool loop of a turn terminates.  Every iteration makes one
\* Provider call, the calls of a turn never exceed the cap, the loop is
\* never left running at the cap, and a turn whose Provider has answered
\* every call up to the cap with a tool call ends Degraded.
C10_ToolLoopBounded ==
    [][/\ loopCalls' <= MaxToolIterations
       /\ turnState = "ToolLoop" => loopCalls' = loopCalls + 1
       /\ turnState' = "ToolLoop" => loopCalls' < MaxToolIterations
       /\ (turnState = "ToolLoop" /\ Len(exchange') = MaxToolIterations)
            => turnState' = "Degraded"]_vars

\* C10, reached: a turn degraded by the cap, all of whose Provider calls
\* returned a tool call that was executed.
C10_Witness ==
    /\ turnState = "Degraded"
    /\ loopCalls = MaxToolIterations
    /\ Len(exchange) = MaxToolIterations

----------------------------------------------------------------------------
(* The orchestrator's turn *)

\* The place of a state in the order of section 4.3.
Rank(s) ==
    CASE s = "Classifying" -> 1
      [] s = "Dispatched" -> 2
      [] s = "ToolLoop" -> 3
      [] s = "Responding" -> 4
      [] s = "Done" -> 5
      [] OTHER -> 0

TerminalStates == {"Done", "Degraded"}

NonTerminalStates == {"Classifying", "Dispatched", "ToolLoop", "Responding"}

\* A step inside one turn.
SameTurn == coreTurns' = coreTurns /\ coreTurns >= 1

\* C11: every turn moves through Classifying, Dispatched, ToolLoop,
\* Responding, Done in that order, one state at a time (the tool loop may
\* stay in ToolLoop), never back; the only other state of a turn is
\* Degraded, entered from a non-terminal state only; Done and Degraded are
\* left only by the start of the next turn, in Classifying; and every turn
\* that has started ends in Done or in Degraded.
C11_TurnStateMachine ==
    /\ [][/\ coreTurns' >= 1 =>
               turnState' \in NonTerminalStates \cup TerminalStates
          /\ SameTurn =>
               \/ turnState = "ToolLoop" /\ turnState' = "ToolLoop"
               \/ /\ turnState \in NonTerminalStates
                  /\ Rank(turnState') = Rank(turnState) + 1
               \/ /\ turnState \in NonTerminalStates
                  /\ turnState' = "Degraded"
          /\ coreTurns' # coreTurns =>
               /\ coreTurns' = coreTurns + 1
               /\ (coreTurns >= 1 => turnState \in TerminalStates)
               /\ turnState' = "Classifying"]_vars
    /\ \A n \in 1..MaxCoreTurns :
         [](coreTurns = n => <>(coreTurns = n /\ turnState \in TerminalStates))

\* C11, reached: a conversation whose first turn ended Degraded and whose
\* second turn, having gone through the tool loop, ended Done.
C11_Witness ==
    /\ coreTurns = 2
    /\ turnState = "Done"
    /\ loopCalls >= 2
    /\ \E i \in 1..Len(window) : window[i] = DegradedTurn

\* The step appends a failed execution to the exchange.
AppendsToolError ==
    /\ Len(exchange') = Len(exchange) + 1
    /\ exchange'[Len(exchange')].result = "error"

\* C12: a tool call whose execution fails does not abort the turn.  The
\* failure is appended to the exchange as a tool-error result, behind what
\* the exchange held; no degraded turn is recorded for it and the loop
\* goes on to its next Provider call, unless this was the call at which
\* the iteration cap ends the loop; and within a turn the exchange keeps
\* the errors it holds.
C12_ToolFailureDoesNotAbort ==
    [][/\ AppendsToolError =>
            /\ turnState = "ToolLoop"
            /\ SubSeq(exchange', 1, Len(exchange)) = exchange
            /\ \/ turnState' = "ToolLoop" /\ window' = window
               \/ turnState' = "Degraded" /\ loopCalls' = MaxToolIterations
       /\ SameTurn => IsPrefix(exchange, exchange')]_vars

\* C12, reached: a turn that ended Done with a tool error in its exchange.
C12_Witness ==
    /\ turnState = "Done"
    /\ \E i \in 1..Len(exchange) : exchange[i].result = "error"

\* The whitelist of the agent selected for the turn.
Whitelist == ToolsOf(AgentFor(intent))

\* C13: in every turn the tools offered to the Provider and the tool calls
\* executed are of the whitelist of the agent selected for the turn, the
\* agent of the turn's intent; an executed call is the one the Provider
\* returned, among the tools offered to it; and a returned tool call naming
\* a tool outside the whitelist is not executed (the exchange stays as it
\* is) and sends the turn to Degraded as a ProviderContractViolation.
C13_OnlyWhitelistedTools ==
    [][/\ turnState' \in {"ToolLoop", "Responding", "Done"} =>
            activeAgent' = AgentFor(intent')
       /\ offered' # {} => activeAgent' = AgentFor(intent')
       /\ offered' \subseteq Whitelist'
       /\ \A i \in 1..Len(exchange') : exchange'[i].tool \in Whitelist'
       /\ Len(exchange') > Len(exchange) =>
            /\ returned'.kind = "tool"
            /\ exchange' = Append(exchange, exchange'[Len(exchange')])
            /\ exchange'[Len(exchange')].tool = returned'.name
            /\ returned'.name \in offered'
       /\ ( /\ turnState = "ToolLoop"
            /\ returned'.kind = "tool"
            /\ returned'.name \notin Whitelist ) =>
            /\ exchange' = exchange
            /\ turnState' = "Degraded"
            /\ failure' = "ProviderContractViolation"]_vars

\* C13, reached: a turn that executed a tool of its agent's whitelist and
\* was then degraded by a well-formed call of a tool outside it.
C13_Witness ==
    /\ turnState = "Degraded"
    /\ failure = "ProviderContractViolation"
    /\ returned.kind = "tool"
    /\ returned.parsable
    /\ returned.name \notin Whitelist
    /\ offered # {}
    /\ exchange # <<>>

\* C14: a classification yields one intent of the fixed set, which the turn
\* keeps; when the confidence is below the threshold the intent is fallback,
\* the classification records no failure and the turn goes on to
\* Dispatched, and from there to the tool loop of the fallback agent.
C14_LowConfidenceFallsBack ==
    [][/\ confidence' # "none" => intent' \in Intents
       /\ (SameTurn /\ intent # "none") => intent' = intent
       /\ (SameTurn /\ confidence # "none") => confidence' = confidence
       /\ confidence' = "low" => intent' = "fallback"
       /\ (turnState = "Classifying" /\ confidence' = "low") =>
            /\ turnState' = "Dispatched"
            /\ failure' = "none"
            /\ window' = window
       /\ (turnState = "Dispatched" /\ confidence = "low") =>
            /\ turnState' = "ToolLoop"
            /\ activeAgent' = "fallback"
            /\ failure' = "none"]_vars

\* C14, reached: a turn classified below the threshold that the fallback
\* agent answered.
C14_Witness ==
    /\ confidence = "low"
    /\ intent = "fallback"
    /\ activeAgent = "fallback"
    /\ turnState = "Done"

\* The tools this turn has executed with success.
ExecutedTools ==
    { exchange[i].tool : i \in { j \in 1..Len(exchange) :
                                     exchange[j].result = "result" } }

\* C15: scratch slots never outlive the turn that wrote them.  The scratch
\* holds slots only while a turn is in its tool loop or is responding, all
\* of them written by tool calls of that turn; it is empty when a turn has
\* ended, in Done or in Degraded, and when the next turn starts.
C15_ScratchEmptyAtTurnStart ==
    /\ turnState \in {"Idle", "Classifying", "Dispatched", "Done", "Degraded"}
         => scratch = {}
    /\ scratch \subseteq ExecutedTools

\* C15, reached: a second turn starting with the scratch empty, after a
\* first turn that wrote scratch slots and ended Degraded.
C15_Witness ==
    /\ coreTurns = 2
    /\ turnState = "Classifying"
    /\ scratchWrites > 0
    /\ scratch = {}
    /\ \E i \in 1..Len(window) : window[i] = DegradedTurn

----------------------------------------------------------------------------
(* Checkout *)

\* The step is a call of checkout.
OrderCalled == Len(orders') = Len(orders) + 1

\* The step in which the call k of checkout runs to its end.
OrderCompletes(k) ==
    k \in 1..Len(orders) /\ ~orders[k].done /\ orders'[k].done

\* C16: checkout is all-or-nothing with respect to the cart.  Calling it
\* leaves the cart as it is; called with an empty cart it fails with the
\* error 'Cart is empty' and makes no request, and otherwise it makes one;
\* a call whose request fails runs to its end with the cart's items as they
\* are, one whose request succeeds ends with the cart empty; and no step of
\* a checkout changes the cart but the end of a call whose request has
\* succeeded.
C16_CheckoutAllOrNothing ==
    [][/\ OrderCalled =>
            /\ items' = items
            /\ SubSeq(orders', 1, Len(orders)) = orders
            /\ LET call == orders'[Len(orders')]
               IN  IF Len(items) = 0
                   THEN /\ ~call.issued
                        /\ call.result = CartEmptyError
                        /\ "payload" \notin DOMAIN call
                   ELSE /\ call.issued
                        /\ call.result.status = "pending"
                        /\ "payload" \in DOMAIN call
       /\ \A k \in 1..Len(orders) :
            OrderCompletes(k) =>
                IF orders[k].issued /\ orders[k].result.status = "resolved"
                THEN items' = <<>>
                ELSE items' = items
       /\ (orders' # orders /\ items' # items) =>
            \E k \in 1..Len(orders) :
                /\ OrderCompletes(k)
                /\ orders[k].result.status = "resolved"]_vars

\* C16, reached: the page's checkout has failed and run to its end, and the
\* cart still holds items.
C16_Witness ==
    \E k \in 1..Len(orders) :
        /\ orders[k].done
        /\ orders[k].page
        /\ orders[k].result = Rejected
        /\ Len(items) # 0
        /\ ~loading

\* C17: the order request built by checkout has one line item per cart
\* item, in cart order, of the three fields sku_id, quantity and unit_price:
\* the item's product_id, its quantity and its price (0 for an item without
\* a price); the request is for the customer given and is not changed while
\* it is in flight.
C17_LineItemsMirrorCart ==
    [][/\ (OrderCalled /\ Len(items) # 0) =>
            LET body == orders'[Len(orders')].payload
                lines == body.line_items
            IN  /\ Len(lines) = Len(items)
                /\ \A i \in 1..Len(items) :
                     /\ DOMAIN lines[i] = {"sku_id", "quantity", "unit_price"}
                     /\ lines[i].sku_id = items[i].product_id
                     /\ lines[i].quantity = items[i].quantity
                     /\ lines[i].unit_price =
                          IF "price" \in DOMAIN items[i] THEN items[i].price
                          ELSE 0
                /\ \/ body.customer_id = U1.customer_id
                   \/ user # Null /\ body.customer_id = user.customer_id
       /\ \A k \in 1..Len(orders) :
            ("payload" \in DOMAIN orders[k] /\ ~OrderCompletes(k)) =>
                /\ "payload" \in DOMAIN orders'[k]
                /\ orders'[k].payload = orders[k].payload]_vars

\* C17, reached: an order in flight for a cart of two items, the scarf
\* first, one of quantity 2 and one of price 0.
C17_Witness ==
    \E k \in 1..Len(orders) :
        /\ orders[k].issued
        /\ ~orders[k].done
        /\ Len(orders[k].payload.line_items) = 2
        /\ orders[k].payload.line_items[1].sku_id = P2.product_id
        /\ orders[k].payload.line_items[1].unit_price = 0
        /\ orders[k].payload.line_items[2].quantity = 2
        /\ orders[k].payload.line_items[2].unit_price = P1.price_from

----------------------------------------------------------------------------
(* AuthGuard *)

\* C18: AuthGuard never renders protected content to a logged-out visitor.
\* While the component is not mounted, and while user is null and the path
\* is neither /login nor /register, the children are not rendered.
C18_NoProtectedContentLoggedOut ==
    ( \/ ~guardMounted
      \/ user = Null /\ pathname \notin {"/login", "/register"} )
        => ~childrenShown

\* C18, reached: a logged-out visitor on the cart page, the guard mounted,
\* the children not rendered.
C18_Witness ==
    /\ guardMounted
    /\ user = Null
    /\ pathname = "/cart"
    /\ ~childrenShown

\* The step is a run of the redirect effect of the mounted guard.
EffectRuns ==
    /\ lastDeps' # lastDeps
    /\ lastDeps' # NoDeps
    /\ lastDeps'[3]

\* C19: once mounted, the guard's effect runs on every change of user or
\* path.  It sends a logged-out visitor on a non-public path to /login and
\* a logged-in user on /login or /register to /, and issues no redirect
\* otherwise; one run issues one redirect at most; the page it redirects to
\* calls for no redirect; and no more than one redirect is issued between
\* two acts of the visitor.
C19_RedirectsOnceAndStop ==
    /\ [][/\ EffectRuns =>
               /\ lastDeps' = <<user, pathname, TRUE>>
               /\ IF user = Null /\ pathname \notin {"/login", "/register"}
                  THEN pendingNav' = "/login" /\ redirects' = redirects + 1
                  ELSE IF user # Null /\ pathname \in {"/login", "/register"}
                  THEN pendingNav' = "/" /\ redirects' = redirects + 1
                  ELSE pendingNav' = pendingNav /\ redirects' = redirects
               /\ redirects' > redirects =>
                    Len(Pushes(TRUE, user, pendingNav')) = 0
          /\ redirects' <= redirects + 1
          /\ redirects' > redirects => EffectRuns
          /\ redirects' <= 1]_vars
    /\ []((guardMounted /\ lastDeps # <<user, pathname, TRUE>>)
            => <>(~guardMounted \/ lastDeps = <<user, pathname, TRUE>>))

\* C19, reached: a logged-out visitor sent to /login by one redirect, the
\* login page shown and the effect run there without another.
C19_Witness ==
    /\ guardMounted
    /\ user = Null
    /\ pathname = "/login"
    /\ pendingNav = NoPath
    /\ redirects = 1
    /\ lastDeps = <<Null, "/login", TRUE>>

----------------------------------------------------------------------------
(* handleSend's early return *)

\* A text of nothing but white space, the empty text included.
OnlyWhitespace(s) == \A i \in 1..Len(s) : s[i] = Whitespace

\* The requests in flight that the mounted ChatInterface has issued.
InFlightHere == { t \in Turns : requests[t].live /\ ~requests[t].done }

\* C20: handleSend acts only when the mounted ChatInterface has no request
\* in flight and the input holds more than white space: only then is a
\* request issued or a user message appended, and never otherwise.  Hence
\* the mounted ChatInterface has at most one request in flight, and it is
\* loading exactly while it has one.
C20_SendOnlyWhenIdleWithText ==
    [][/\ \A t \in 1..MaxTurns :
            Accepts(t) =>
                /\ mounted
                /\ ~isLoading
                /\ InFlightHere = {}
                /\ ~OnlyWhitespace(input)
                /\ messages' = Append(messages, UserMessage(t)')
       /\ ( /\ Len(messages') > Len(messages)
            /\ messages'[Len(messages')].role = "user" ) =>
            \E t \in 1..MaxTurns : Accepts(t)
       /\ Cardinality(InFlightHere') <= 1
       /\ mounted' => (isLoading' <=> InFlightHere' # {})]_vars

\* C20, reached: the mounted ChatInterface has one request in flight and is
\* loading, its input empty, while a request of an earlier instance is in
\* flight as well.
C20_Witness ==
    /\ mounted
    /\ isLoading
    /\ input = <<>>
    /\ Cardinality(InFlightHere) = 1
    /\ \E t \in Turns : ~requests[t].live /\ ~requests[t].done

----------------------------------------------------------------------------
(* The order of the history *)

\* C21: after the greeting the history alternates user, assistant, user,
\* assistant: every message a send appends for the assistant stands right
\* behind the user message it answers, whatever the interleaving of sends,
\* responses and unmounts and mounts of the ChatInterface.
C21_HistoryAlternates ==
    \A i \in 2..Len(messages) :
        messages[i].role = IF i % 2 = 0 THEN "user" ELSE "assistant"

----------------------------------------------------------------------------
(* The cart *)

\* The cart item was submitted with the order, in at least its quantity.
Ordered(item, lines) ==
    \E j \in 1..Len(lines) :
        /\ lines[j].sku_id = item.product_id
        /\ lines[j].quantity >= item.quantity

\* C22: a successful checkout removes from the cart only what was part of
\* the order submitted: whatever the cart's operations did while the
\* request was in flight, every item the end of the call takes out of the
\* cart was ordered, in at least the quantity the cart holds.
C22_CheckoutRemovesOnlyOrdered ==
    [][\A k \in 1..Len(orders) :
         ( /\ OrderCompletes(k)
           /\ orders[k].issued
           /\ orders[k].result.status = "resolved" ) =>
            \A i \in 1..Len(items) :
                \/ \E j \in 1..Len(items') : items'[j] = items[i]
                \/ Ordered(items[i], orders[k].payload.line_items)]_vars


\* The line items of the orders whose requests are in flight or answered.
Submitted(k) ==
    IF orders[k].issued /\ ~orders[k].done
    THEN orders[k].payload.line_items ELSE <<>>

\* C23: every cart item has a quantity greater than 0, and so has every line
\* item that checkout submits, as the order_line_item table requires
\* (CHECK (quantity > 0)), after any sequence of addToCart, removeFromCart,
\* updateQuantity and clearCart from the empty cart.
C23_QuantitiesPositive ==
    /\ \A i \in 1..Len(items) : items[i].quantity > 0
    /\ \A k \in 1..Len(orders) :
          \A j \in 1..Len(Submitted(k)) : Submitted(k)[j].quantity > 0


\* C24: no two cart items have the same product_id, after any sequence of
\* addToCart, removeFromCart, updateQuantity, clearCart and checkout from the
\* empty cart.
C24_ProductIdsDistinct ==
    \A i, j \in 1..Len(items) :
        items[i].product_id = items[j].product_id => i = j

\* Both products are in the cart, one of them with a quantity that
\* updateQuantity has set, after a checkout has run to its end.
C24_Witness ==
    /\ Len(items) = 2
    /\ \E i \in 1..Len(items) : items[i].quantity = 0
    /\ \E k \in 1..Len(orders) : orders[k].done


\* The cart holds an entry for the product.
InCart(its, productId) ==
    \E i \in 1..Len(its) : its[i].product_id = productId

\* C25: each addToCart(p) increases totalItems() by exactly 1 and changes
\* only the entry for p: an entry with p's product_id grows by 1 in its
\* place, its other fields kept, and otherwise an entry with quantity 1 is
\* appended at the end; every other entry is kept, in the same order.
C25_AddToCartAddsOne ==
    [][\A p \in Products :
         StoreAddToCart(p) =>
           /\ totalItems(items') = totalItems(items) + 1
           /\ IF InCart(items, p.product_id)
              THEN /\ Len(items') = Len(items)
                   /\ \A i \in 1..Len(items) :
                        items'[i] =
                          IF items[i].product_id = p.product_id
                          THEN [items[i] EXCEPT !.quantity = @ + 1]
                          ELSE items[i]
              ELSE /\ Len(items') = Len(items) + 1
                   /\ SubSeq(items', 1, Len(items)) = items
                   /\ items'[Len(items')].product_id = p.product_id
                   /\ items'[Len(items')].quantity = 1]_vars

\* The first of two entries has grown from the 0 that the order in flight
\* carries to 1, in its place, and the second is as it was ordered.
C25_Witness ==
    /\ Len(items) = 2
    /\ items[1].quantity = 1
    /\ \E k \in 1..Len(orders) :
          /\ Len(Submitted(k)) = 2
          /\ \A j \in 1..2 : Submitted(k)[j].sku_id = items[j].product_id
          /\ Submitted(k)[1].quantity = 0
          /\ Submitted(k)[2].quantity = items[2].quantity


(* The product panel *)

\* The response is a successful one whose structured payload carries products.
CarriesProducts(r) ==
    /\ r.status = "resolved"
    /\ r.kind = "object"
    /\ "data" \in DOMAIN r.data
    /\ "products" \in DOMAIN r.data.data

\* The very last message of the history carries products.
LastCarriesProducts(msgs) ==
    /\ "data" \in DOMAIN msgs[Len(msgs)]
    /\ "products" \in DOMAIN msgs[Len(msgs)].data

\* C26: the product panel shows the products of the most recent successful
\* response that carried data.products: when a turn completes while the
\* page is shown, a response with products replaces the displayed list by
\* exactly its products, and a response without products or a failed
\* request leaves the list as it is; on mount the list is the one of the
\* very last message of the history when that message carries products, and
\* is empty otherwise.
C26_PanelShowsLatestProducts ==
    [][/\ \A t \in Turns :
            (Completes(t) /\ mounted) =>
                selectedProducts' =
                    IF CarriesProducts(requests[t].result)
                    THEN requests[t].result.data.data.products
                    ELSE selectedProducts
       /\ (~mounted /\ mounted') =>
            selectedProducts' =
                IF LastCarriesProducts(messages)
                THEN messages[Len(messages)].data.products
                ELSE <<>>]_vars


(* The lookbook *)

\* An item with the id is present in the lookbook.
Present(its, productId) ==
    \E i \in 1..Len(its) : its[i].product_id = productId

\* C27: addToLookbook is idempotent: adding a product whose product_id is
\* already in the lookbook leaves the lookbook unchanged; hence, after any
\* sequence of addToLookbook and removeFromLookbook from the empty lookbook,
\* no two items share a product_id, and isInLookbook(id) is true exactly
\* when an item with that id is present.
C27_AddToLookbookIdempotent ==
    /\ \A p \in LookbookProducts :
          Present(lookbook, p.product_id) =>
              addToLookbook(lookbook, p) = lookbook
    /\ \A i, j \in 1..Len(lookbook) :
          lookbook[i].product_id = lookbook[j].product_id => i = j
    /\ \A id \in ProductIds :
          isInLookbook(lookbook, id) <=> Present(lookbook, id)

\* The last addToLookbook was given the repriced dress while the lookbook
\* held the dress, which it still holds, among other items.
C27_Witness ==
    /\ lastAdded = P1Repriced
    /\ Len(lookbook) = 3
    /\ \E i \in 1..Len(lookbook) : lookbook[i] = P1

============================================================================
